---- MODULE Spec2Model ----
(***************************************************************************)
(* A model of hs-wallet: the name rule (rule.js), the transaction object   *)
(* TX with its caches (primitives/tx.js) and the wallet's transaction      *)
(* builders (index.js).                                                    *)
(*                                                                         *)
(* Byte strings.  A Buffer is a sequence of chunks [n, t, i, v]: n is the  *)
(* chunk's width in bytes and t its kind: "lit" for n literal bytes that   *)
(* hold the number i, and otherwise the name of the library function that  *)
(* computed the chunk from the byte string v (a digest of v, a signature   *)
(* over v, a key derived from v).  Digests, signing and key derivation are *)
(* the libraries bcrypto, secp256k1 and hdkey: they are modelled as free   *)
(* constructors, so two digests are equal exactly when their preimages     *)
(* are, and a signature verifies exactly for the hash and key it was made  *)
(* with.                                                                   *)
(***************************************************************************)
EXTENDS Integers, Sequences, FiniteSets, TLC

VARIABLES
  name,      \* rule: the string handed to verifyString (a sequence of char codes)
  verdict,   \* rule: "none" before the call, then "true" or "false"
  wallet,    \* HandshakeJS instance: _seed, _privateKey, _publicKey
  call,      \* the arguments of the builder call
  result,    \* what the builder call returned or threw
  built,     \* the Tx object generateTransaction built (its local `transaction`)
  work,      \* what the builder call computed before it returned or threw
  tx,        \* a TX object: fields, mutable flag and caches
  ret,       \* what the last TX method call returned or threw
  edits      \* number of field edits made to tx so far

vars == <<name, verdict, wallet, call, result, built, work, tx, ret, edits>>

ruleVars == <<name, verdict>>
walletVars == <<wallet, call, result, built, work>>
txVars == <<tx, ret, edits>>

-----------------------------------------------------------------------------
(* Bounds of the model.                                                    *)

\* longest prefix drawn from NameAlphabet in front of a padded name
MaxHead == 2
\* most UTXOs handed to a builder
MaxUtxos == 2
\* largest amount, fee, bid value and lockup handed to a builder
MaxAmount == 2
\* most field edits made to one TX
MaxEdits == 2
\* most inputs and most outputs of a TX that is signed and verified
MaxInputs == 2
MaxOutputs == 2

-----------------------------------------------------------------------------
(* Byte strings.                                                           *)

Chunk(n, t, i, v) == [n |-> n, t |-> t, i |-> i, v |-> v]

\* n literal bytes that hold the number i
Lit(n, i) == <<Chunk(n, "lit", i, <<>>)>>

RECURSIVE ByteLen(_)
ByteLen(b) == IF b = <<>> THEN 0 ELSE Head(b).n + ByteLen(Tail(b))

RECURSIVE Concat(_)
Concat(ss) == IF ss = <<>> THEN <<>> ELSE Head(ss) \o Concat(Tail(ss))

\* the first k bytes of b; a chunk cut in two becomes a "head" chunk
RECURSIVE TakeBytes(_, _)
TakeBytes(b, k) ==
  IF k <= 0 \/ b = <<>> THEN <<>>
  ELSE IF Head(b).n <= k THEN <<Head(b)>> \o TakeBytes(Tail(b), k - Head(b).n)
  ELSE <<Chunk(k, "head", k, <<Head(b)>>)>>

\* b without its first k bytes; the rest of a chunk cut in two is a "tail" chunk
RECURSIVE DropBytes(_, _)
DropBytes(b, k) ==
  IF k <= 0 \/ b = <<>> THEN b
  ELSE IF Head(b).n <= k THEN DropBytes(Tail(b), k - Head(b).n)
  ELSE <<Chunk(Head(b).n - k, "tail", k, <<Head(b)>>)>> \o Tail(b)

\* Buffer.slice(from, to)
Slice(b, from, to) == TakeBytes(DropBytes(b, from), to - from)

\* bcrypto blake2b.digest(data) (32 bytes) and blake2b.digest(data, 20)
Blake2b(data) == <<Chunk(32, "blake2b", 0, data)>>
Blake2b160(data) == <<Chunk(20, "blake2b", 0, data)>>
\* bcrypto blake2b.multi(a, b, c): the digest of the concatenation
Blake2bMulti(a, b, c) == Blake2b(a \o b \o c)
\* bcrypto blake2b.root(left, right): the hash-tree node of two leaves
Blake2bRoot(left, right) == <<Chunk(32, "blake2b.root", 0, left \o right)>>
\* bcrypto sha3.digest(data)
Sha3(data) == <<Chunk(32, "sha3", 0, data)>>

\* secp256k1.publicKeyCreate(privateKey, true): the 33-byte compressed key
PublicKeyCreate(priv) == <<Chunk(33, "publicKeyCreate", 0, priv)>>
\* secp256k1.sign(hash, key): 64 bytes
Secp256k1Sign(hash, priv) == <<Chunk(64, "sign", 0, priv \o hash)>>
\* secp256k1.verify(hash, sig, key)
Secp256k1Verify(hash, sig, pub) ==
  /\ Len(sig) = 1
  /\ sig[1].t = "sign"
  /\ Len(sig[1].v) >= 1
  /\ sig = Secp256k1Sign(hash, <<sig[1].v[1]>>)
  /\ pub = PublicKeyCreate(<<sig[1].v[1]>>)

\* hdkey.fromMasterSeed(seed).derive(path).privateKey; path is the list of
\* the path's components
HdPrivateKey(seed, path) ==
  <<Chunk(32, "derive", 0, seed \o [j \in 1..Len(path) |-> Chunk(4, "lit", path[j], <<>>)])>>

-----------------------------------------------------------------------------
(* rule.js: verifyString.                                                  *)

MAX_NAME_SIZE == 63

\* 'example', 'invalid', 'local', 'localhost', 'test' as char codes
blacklist ==
  { <<101, 120, 97, 109, 112, 108, 101>>,
    <<105, 110, 118, 97, 108, 105, 100>>,
    <<108, 111, 99, 97, 108>>,
    <<108, 111, 99, 97, 108, 104, 111, 115, 116>>,
    <<116, 101, 115, 116>> }

\* CHARSET[ch] is CHARSET[ch + 1] here
CHARSET ==
  << 0, 0, 0, 0, 0, 0, 0, 0, 0, 0, 0, 0, 0, 0, 0, 0,
     0, 0, 0, 0, 0, 0, 0, 0, 0, 0, 0, 0, 0, 0, 0, 0,
     0, 0, 0, 0, 0, 0, 0, 0, 0, 0, 0, 0, 0, 4, 0, 0,
     1, 1, 1, 1, 1, 1, 1, 1, 1, 1, 0, 0, 0, 0, 0, 0,
     0, 2, 2, 2, 2, 2, 2, 2, 2, 2, 2, 2, 2, 2, 2, 2,
     2, 2, 2, 2, 2, 2, 2, 2, 2, 2, 2, 0, 0, 0, 0, 4,
     0, 3, 3, 3, 3, 3, 3, 3, 3, 3, 3, 3, 3, 3, 3, 3,
     3, 3, 3, 3, 3, 3, 3, 3, 3, 3, 3, 0, 0, 0, 0, 0 >>

\* the for loop of verifyString from index i on: FALSE when some iteration
\* returns false, TRUE when the loop runs to its end.  ch & 0xff80 is the
\* bits 7..15 of the 16-bit char code.
RECURSIVE verifyStringLoop_NoEndCheck(_, _)
verifyStringLoop_NoEndCheck(str, i) ==
  IF i >= Len(str) THEN TRUE
  ELSE
    LET ch == str[i + 1] IN
    IF (ch \div 128) % 512 # 0 THEN FALSE
    ELSE
      LET type == CHARSET[ch + 1] IN
      CASE type = 0 -> FALSE
        [] type = 1 -> verifyStringLoop_NoEndCheck(str, i + 1)
        [] type = 2 -> FALSE
        [] type = 3 -> verifyStringLoop_NoEndCheck(str, i + 1)
        [] type = 4 -> IF i = 0 THEN FALSE
                       ELSE verifyStringLoop_NoEndCheck(str, i + 1)

RECURSIVE verifyStringLoop(_, _)
verifyStringLoop(str, i) ==
  IF i >= Len(str) THEN TRUE
  ELSE
    LET ch == str[i + 1] IN
    IF (ch \div 128) % 512 # 0 THEN FALSE
    ELSE
      LET type == CHARSET[ch + 1] IN
      CASE type = 0 -> FALSE
        [] type = 1 -> verifyStringLoop(str, i + 1)
        [] type = 2 -> FALSE
        [] type = 3 -> verifyStringLoop(str, i + 1)
        [] type = 4 -> IF i = 0 \/ i = Len(str) - 1 THEN FALSE
                       ELSE verifyStringLoop(str, i + 1)

verifyString(str) ==
  IF Len(str) = 0 THEN FALSE
  ELSE IF Len(str) > MAX_NAME_SIZE THEN FALSE
  ELSE IF ~verifyStringLoop(str, 0) THEN FALSE
  ELSE IF str \in blacklist THEN FALSE
  ELSE TRUE

-----------------------------------------------------------------------------
(* The names verifyString is tried on.                                     *)

\* a-z, 0-9, the joiners, an uppercase letter
NameAlphabet == {97, 48, 45, 95, 65}

Affix(k) == UNION {[1..m -> NameAlphabet] : m \in 0..k}

Pad(n) == [j \in 1..n |-> 97]

\* every 16-bit char code class: all of 7-bit ASCII, the codes with bit 7
\* set, and codes above 255 whose low seven bits are those of a valid char
CharCodes == 0..383

NameInputs ==
  \* short names, and names around MAX_NAME_SIZE chars
  { h \o Pad(p) \o t : h \in Affix(MaxHead),
                       p \in {0, MAX_NAME_SIZE - 2, MAX_NAME_SIZE - 1},
                       t \in Affix(1) }
  \* each char code alone, first, last and in the middle
  \cup { <<c>> : c \in CharCodes }
  \cup { <<c, 97>> : c \in CharCodes }
  \cup { <<97, c>> : c \in CharCodes }
  \cup { <<97, c, 97>> : c \in CharCodes }
  \* the reserved names, and names that contain one
  \cup blacklist
  \cup { b \o t : b \in blacklist, t \in Affix(1) }
  \cup { t \o b : b \in blacklist, t \in Affix(1) }

-----------------------------------------------------------------------------
(* bufio writers and the value objects of primitives/ and script/.         *)

\* bufio encoding.sizeVarint(num)
SizeVarint(num) ==
  IF num < 253 THEN 1 ELSE IF num <= 65535 THEN 3 ELSE 5

WriteU8(x) == Lit(1, x)
WriteU32(x) == Lit(4, x)
WriteU64(x) == Lit(8, x)
WriteVarint(x) == Lit(SizeVarint(x), x)
WriteVarBytes(b) == WriteVarint(ByteLen(b)) \o b
SizeVarBytes(b) == SizeVarint(ByteLen(b)) + ByteLen(b)

\* consensus.ZERO_HASH: 32 zero bytes
ZERO_HASH == Lit(32, 0)

\* 0xffffffff, held as the 32-bit pattern -1
U32_MAX == 0 - 1

\* new Outpoint(hash, index); new Outpoint() is the null outpoint
Outpoint(hash, index) == [hash |-> hash, index |-> index]
NullOutpoint == Outpoint(ZERO_HASH, U32_MAX)

\* new Input() and Input.fromOutpoint(outpoint): sequence 0xffffffff, no witness
NewInput == [prevout |-> NullOutpoint, sequence |-> U32_MAX, witness |-> <<>>]
InputFromOutpoint(outpoint) ==
  [prevout |-> outpoint, sequence |-> U32_MAX, witness |-> <<>>]

\* Outpoint.write: hash (32) and index (4)
OutpointWrite(prevout) == prevout.hash \o WriteU32(prevout.index)

\* Input.write: the outpoint and the sequence, 40 bytes, without the witness
InputWrite(input) == OutpointWrite(input.prevout) \o WriteU32(input.sequence)

RECURSIVE WriteItems(_)
WriteItems(items) ==
  IF items = <<>> THEN <<>>
  ELSE WriteVarBytes(Head(items)) \o WriteItems(Tail(items))

RECURSIVE SizeItems(_)
SizeItems(items) ==
  IF items = <<>> THEN 0
  ELSE SizeVarBytes(Head(items)) + SizeItems(Tail(items))

\* Witness.write and Witness.getVarSize: the item count, then each item
WitnessWrite(witness) == WriteVarint(Len(witness)) \o WriteItems(witness)
WitnessGetVarSize(witness) == SizeVarint(Len(witness)) + SizeItems(witness)

\* Address: version and hash
Address(hash) == [version |-> 0, hash |-> hash]
AddressWrite(addr) ==
  WriteU8(addr.version) \o WriteU8(ByteLen(addr.hash)) \o addr.hash
AddressGetSize(addr) == 1 + 1 + ByteLen(addr.hash)

\* covenant types of rule.js
types == [NONE |-> 0, CLAIM |-> 1, OPEN |-> 2, BID |-> 3, REVEAL |-> 4,
          REDEEM |-> 5, REGISTER |-> 6, UPDATE |-> 7, RENEW |-> 8,
          TRANSFER |-> 9, FINALIZE |-> 10, REVOKE |-> 11]

\* Covenant: type and items
Covenant(type, items) == [type |-> type, items |-> items]
CovenantWrite(cov) ==
  WriteU8(cov.type) \o WriteVarint(Len(cov.items)) \o WriteItems(cov.items)
CovenantGetVarSize(cov) == 1 + SizeVarint(Len(cov.items)) + SizeItems(cov.items)

\* new Output(): value 0, covenant NONE
Output(address, value, covenant) ==
  [value |-> value, address |-> address, covenant |-> covenant]
\* Output.fromScript(address, value)
OutputFromScript(address, value) == Output(address, value, Covenant(types.NONE, <<>>))
\* Output.write / Output.encode and Output.getSize
OutputWrite(output) ==
  WriteU64(output.value) \o AddressWrite(output.address) \o CovenantWrite(output.covenant)
OutputGetSize(output) ==
  8 + AddressGetSize(output.address) + CovenantGetVarSize(output.covenant)

\* Script.fromPubkeyhash(hash): OP_DUP OP_BLAKE160 <hash> OP_EQUALVERIFY OP_CHECKSIG
ScriptFromPubkeyhash(hash) ==
  WriteU8(118) \o WriteU8(192) \o WriteU8(ByteLen(hash)) \o hash \o WriteU8(136) \o WriteU8(172)

\* the sighash types of Script.hashType
hashType == [ALL |-> 1, NONE |-> 2, SINGLE |-> 3, SINGLEREVERSE |-> 4,
             NOINPUT |-> 64, ANYONECANPAY |-> 128]

\* type & 0x1f, type & hashType.NOINPUT, type & hashType.ANYONECANPAY
BaseMode(type) == type % 32
HasNoInput(type) == (type \div hashType.NOINPUT) % 2 = 1
HasAnyoneCanPay(type) == (type \div hashType.ANYONECANPAY) % 2 = 1

-----------------------------------------------------------------------------
(* primitives/tx.js: the TX object.  A method is an operator from the      *)
(* object to [tx, val, threw]: the object after the call, the value        *)
(* returned, and the error thrown ("" when the call returns).              *)

\* const x = v; e(x) is written The({ e(x) : x \in {v} }): the one element
\* of the set, with v computed once
The(S) == CHOOSE r \in S : TRUE

\* a cache field holding null
Null == <<>>
NoSizes == [base |-> 0 - 1, witness |-> 0 - 1]

Sizes(base, witness) == [base |-> base, witness |-> witness]

\* new TX(options)
NewTX(inputs, outputs) ==
  [version |-> 0, inputs |-> inputs, outputs |-> outputs, locktime |-> 0,
   mutable |-> FALSE,
   _hash |-> Null, _wdhash |-> Null, _whash |-> Null,
   _raw |-> Null, _sizes |-> NoSizes,
   _hashPrevouts |-> Null, _hashSequence |-> Null, _hashOutputs |-> Null]

Returns(t, val) == [tx |-> t, val |-> val, threw |-> ""]
Throws(t, error) == [tx |-> t, val |-> Null, threw |-> error]

refresh(t) ==
  [t EXCEPT !._hash = Null, !._wdhash = Null, !._whash = Null,
            !._raw = Null, !._sizes = NoSizes,
            !._hashPrevouts = Null, !._hashSequence = Null, !._hashOutputs = Null]

RECURSIVE SumOutputSizes(_)
SumOutputSizes(outputs) ==
  IF outputs = <<>> THEN 0
  ELSE OutputGetSize(Head(outputs)) + SumOutputSizes(Tail(outputs))

RECURSIVE SumWitnessSizes(_)
SumWitnessSizes(inputs) ==
  IF inputs = <<>> THEN 0
  ELSE WitnessGetVarSize(Head(inputs).witness) + SumWitnessSizes(Tail(inputs))

\* the sizes getSizes computes when _sizes is not set
ComputeSizes(t) ==
  Sizes(4 + SizeVarint(Len(t.inputs)) + 40 * Len(t.inputs)
          + SizeVarint(Len(t.outputs)) + SumOutputSizes(t.outputs) + 4,
        SumWitnessSizes(t.inputs))

\* getSizes with the witness bytes left out of the sum
getSizes_NoWitness(t) ==
  IF t._sizes # NoSizes THEN Returns(t, t._sizes)
  ELSE
    LET sizes == Sizes(ComputeSizes(t).base, 0) IN
    Returns(IF ~t.mutable THEN [t EXCEPT !._sizes = sizes] ELSE t, sizes)

getSizes(t) ==
  IF t._sizes # NoSizes THEN Returns(t, t._sizes)
  ELSE
    LET sizes == ComputeSizes(t) IN
    Returns(IF ~t.mutable THEN [t EXCEPT !._sizes = sizes] ELSE t, sizes)

\* consensus.WITNESS_SCALE_FACTOR and policy.BYTES_PER_SIGOP
WITNESS_SCALE_FACTOR == 4
BYTES_PER_SIGOP == 20

\* Math.max(a, b)
Max(a, b) == IF a >= b THEN a ELSE b

getWeight(t) ==
  The({ Returns(s.tx, s.val.base * (WITNESS_SCALE_FACTOR - 1) + (s.val.base + s.val.witness))
        : s \in {getSizes(t)} })

getSize(t) ==
  The({ Returns(s.tx, s.val.base + s.val.witness) : s \in {getSizes(t)} })

getBaseSize(t) ==
  The({ Returns(s.tx, s.val.base) : s \in {getSizes(t)} })

\* getVirtualSize that rounds down
getVirtualSize_RoundsDown(t) ==
  The({ Returns(w.tx, w.val \div WITNESS_SCALE_FACTOR) : w \in {getWeight(t)} })

\* (x / scale | 0) of a number that is not negative is the quotient
getVirtualSize(t) ==
  The({ Returns(w.tx, (w.val + WITNESS_SCALE_FACTOR - 1) \div WITNESS_SCALE_FACTOR)
        : w \in {getWeight(t)} })

getSigopsSize(t, sigops) ==
  The({ Returns(w.tx, (Max(w.val, sigops * BYTES_PER_SIGOP) + WITNESS_SCALE_FACTOR - 1)
                        \div WITNESS_SCALE_FACTOR)
        : w \in {getWeight(t)} })

RECURSIVE WriteInputs(_)
WriteInputs(inputs) ==
  IF inputs = <<>> THEN <<>> ELSE InputWrite(Head(inputs)) \o WriteInputs(Tail(inputs))

RECURSIVE WriteOutputs(_)
WriteOutputs(outputs) ==
  IF outputs = <<>> THEN <<>> ELSE OutputWrite(Head(outputs)) \o WriteOutputs(Tail(outputs))

RECURSIVE WriteWitnesses(_)
WriteWitnesses(inputs) ==
  IF inputs = <<>> THEN <<>>
  ELSE WitnessWrite(Head(inputs).witness) \o WriteWitnesses(Tail(inputs))

\* what write(bw) writes when _raw is not set
Serialize(t) ==
  WriteU32(t.version)
    \o WriteVarint(Len(t.inputs)) \o WriteInputs(t.inputs)
    \o WriteVarint(Len(t.outputs)) \o WriteOutputs(t.outputs)
    \o WriteU32(t.locktime)
    \o WriteWitnesses(t.inputs)

\* write(bw): the bytes handed to the writer
write(t) == IF t._raw # Null THEN t._raw ELSE Serialize(t)

\* bio.Struct.encode: a writer of getSize() bytes is allocated, write(bw)
\* fills it, and render() throws unless exactly that many bytes were written
StructEncode(t) ==
  The({ The({ IF ByteLen(data) # s.val.base + s.val.witness
                THEN Throws(s.tx, "EncodingError")
                ELSE Returns(s.tx, data)
              : data \in {write(s.tx)} })
        : s \in {getSizes(t)} })

encode(t) ==
  IF t.mutable THEN StructEncode(t)
  ELSE IF t._raw = Null
    THEN The({ IF e.threw # "" THEN e
               ELSE Returns([e.tx EXCEPT !._raw = e.val], e.val)
               : e \in {StructEncode(t)} })
    ELSE Returns(t, t._raw)

\* the three hashes, with the txid taken over the whole encoding
HashesOfRaw_Whole(t, raw, base, witness) ==
  LET ndata == raw
      wdata == Slice(raw, base, base + witness)
      hash == Blake2b(ndata)
      wdhash == Blake2b(wdata)
      whash == Blake2bRoot(hash, wdhash)
  IN Returns(IF ~t.mutable
               THEN [t EXCEPT !._hash = hash, !._wdhash = wdhash, !._whash = whash]
               ELSE t,
             <<hash, wdhash, whash>>)

\* the three hashes of the encoding raw, cut at base, cached when immutable
HashesOfRaw(t, raw, base, witness) ==
  LET ndata == Slice(raw, 0, base)
      wdata == Slice(raw, base, base + witness)
      hash == Blake2b(ndata)
      wdhash == Blake2b(wdata)
      whash == Blake2bRoot(hash, wdhash)
  IN Returns(IF ~t.mutable
               THEN [t EXCEPT !._hash = hash, !._wdhash = wdhash, !._whash = whash]
               ELSE t,
             <<hash, wdhash, whash>>)

\* hashes(): val is <<hash, wdhash, whash>>
hashes(t) ==
  IF t._hash # Null /\ t._wdhash # Null /\ t._whash # Null
    THEN Returns(t, <<t._hash, t._wdhash, t._whash>>)
  ELSE
    The({ The({ IF e.threw # "" THEN e
                ELSE IF ByteLen(e.val) # s.val.base + s.val.witness
                  THEN Throws(e.tx, "AssertionError")
                ELSE HashesOfRaw(e.tx, e.val, s.val.base, s.val.witness)
                : e \in {encode(s.tx)} })
          : s \in {getSizes(t)} })

\* left(), right(), root(): one of the three hashes
HashesPart(t, k) ==
  The({ IF h.threw # "" THEN h ELSE Returns(h.tx, h.val[k]) : h \in {hashes(t)} })

left(t) == HashesPart(t, 1)
root(t) == HashesPart(t, 3)

hash(t) ==
  IF t.mutable THEN left(t)
  ELSE IF t._hash = Null
    THEN The({ IF l.threw # "" THEN l
               ELSE Returns([l.tx EXCEPT !._hash = l.val], l.val)
               : l \in {left(t)} })
    ELSE Returns(t, t._hash)

witnessHash(t) ==
  IF t.mutable THEN root(t)
  ELSE IF t._whash = Null
    THEN The({ IF r.threw # "" THEN r
               ELSE Returns([r.tx EXCEPT !._whash = r.val], r.val)
               : r \in {root(t)} })
    ELSE Returns(t, t._whash)

\* Buffer.toString('hex'): two hex digits per byte
ToHex(b) == <<Chunk(2 * ByteLen(b), "hex", 0, b)>>

txid(t) ==
  The({ IF h.threw # "" THEN h ELSE Returns(h.tx, ToHex(h.val)) : h \in {hash(t)} })

-----------------------------------------------------------------------------
(* primitives/tx.js: read.  A bufio reader is the data and an offset; a    *)
(* read gives [val, off]: the value read and the offset after it.          *)

\* the chunk that starts at offset off
ChunkAt(data, off) == Head(DropBytes(data, off))

\* br.readU8 / readU32 / readU64: the number held at off
ReadNum(data, off, n) == [val |-> ChunkAt(data, off).i, off |-> off + n]

\* br.readVarint: the number, over the width its first byte tells
ReadVarint(data, off) ==
  The({ [val |-> c.i, off |-> off + c.n] : c \in {ChunkAt(data, off)} })

\* br.readBytes(n)
ReadBytes(data, off, n) == [val |-> Slice(data, off, off + n), off |-> off + n]

\* count items, each br.readVarBytes()
RECURSIVE ReadItems(_, _, _)
ReadItems(data, off, count) ==
  IF count = 0 THEN [val |-> <<>>, off |-> off]
  ELSE
    The({ The({ [val |-> <<Slice(data, len.off, len.off + len.val)>> \o r.val,
                 off |-> r.off]
              : r \in {ReadItems(data, len.off + len.val, count - 1)} })
        : len \in {ReadVarint(data, off)} })

\* Witness.read: the item count, then each item
WitnessRead(data, off) ==
  The({ ReadItems(data, count.off, count.val) : count \in {ReadVarint(data, off)} })

\* Input.read: the outpoint (hash, index) and the sequence; no witness yet
InputRead(data, off) ==
  [val |-> [prevout |-> Outpoint(Slice(data, off, off + 32),
                                 ReadNum(data, off + 32, 4).val),
            sequence |-> ReadNum(data, off + 36, 4).val,
            witness |-> <<>>],
   off |-> off + 40]

\* Output.read: the value, the address (version, size, hash) and the
\* covenant (type, item count, items)
OutputRead(data, off) ==
  The({ The({ The({ [val |-> [value |-> ReadNum(data, off, 8).val,
                              address |-> [version |-> ReadNum(data, off + 8, 1).val,
                                           hash |-> Slice(data, off + 10,
                                                          off + 10 + size.val)],
                              covenant |-> [type |-> ReadNum(data, off + 10 + size.val, 1).val,
                                            items |-> items.val]],
                     off |-> items.off]
                  : items \in {ReadItems(data, count.off, count.val)} })
            : count \in {ReadVarint(data, off + 10 + size.val + 1)} })
      : size \in {ReadNum(data, off + 9, 1)} })

\* count inputs, outputs or witnesses read one after the other
RECURSIVE ReadInputs(_, _, _)
ReadInputs(data, off, count) ==
  IF count = 0 THEN [val |-> <<>>, off |-> off]
  ELSE The({ The({ [val |-> <<x.val>> \o r.val, off |-> r.off]
                 : r \in {ReadInputs(data, x.off, count - 1)} })
           : x \in {InputRead(data, off)} })

RECURSIVE ReadOutputs(_, _, _)
ReadOutputs(data, off, count) ==
  IF count = 0 THEN [val |-> <<>>, off |-> off]
  ELSE The({ The({ [val |-> <<x.val>> \o r.val, off |-> r.off]
                 : r \in {ReadOutputs(data, x.off, count - 1)} })
           : x \in {OutputRead(data, off)} })

RECURSIVE ReadWitnesses(_, _, _)
ReadWitnesses(data, off, count) ==
  IF count = 0 THEN [val |-> <<>>, off |-> off]
  ELSE The({ The({ [val |-> <<x.val>> \o r.val, off |-> r.off]
                 : r \in {ReadWitnesses(data, x.off, count - 1)} })
           : x \in {WitnessRead(data, off)} })

\* the tail of read(br): the fields read are set on this, the k-th witness
\* read goes to this.inputs[k], and an immutable TX keeps the bytes read as
\* _raw and their split as _sizes
ReadDone(t, data, version, ins, outs, locktime, wits) ==
  LET inputs == t.inputs \o ins.val
      start == locktime.off
      witness == wits.off - start
      raw == Slice(data, 0, wits.off)
      fields == [t EXCEPT !.version = version.val,
                          !.inputs = [k \in 1..Len(inputs) |->
                                        IF k <= Len(ins.val)
                                          THEN [inputs[k] EXCEPT !.witness = wits.val[k]]
                                          ELSE inputs[k]],
                          !.outputs = t.outputs \o outs.val,
                          !.locktime = locktime.val]
  IN IF ~t.mutable
       THEN Returns([fields EXCEPT !._raw = raw,
                                   !._sizes = Sizes(ByteLen(raw) - witness, witness)],
                    Null)
       ELSE Returns(fields, Null)

\* read(br) with the witnesses read in reverse input order
read_WitnessesReversed(t, data) ==
  The({ The({ The({ The({ The({ The({ The({
    ReadDone(t, data, version, ins, outs, locktime,
             [wits EXCEPT !.val = [k \in 1..Len(wits.val) |->
                                     wits.val[Len(wits.val) + 1 - k]]])
    : wits \in {ReadWitnesses(data, locktime.off, inCount.val)} })
    : locktime \in {ReadNum(data, outs.off, 4)} })
    : outs \in {ReadOutputs(data, outCount.off, outCount.val)} })
    : outCount \in {ReadVarint(data, ins.off)} })
    : ins \in {ReadInputs(data, inCount.off, inCount.val)} })
    : inCount \in {ReadVarint(data, 4)} })
    : version \in {ReadNum(data, 0, 4)} })

\* read(br) of a reader over data
read(t, data) ==
  The({ The({ The({ The({ The({ The({ The({
    ReadDone(t, data, version, ins, outs, locktime, wits)
    : wits \in {ReadWitnesses(data, locktime.off, inCount.val)} })
    : locktime \in {ReadNum(data, outs.off, 4)} })
    : outs \in {ReadOutputs(data, outCount.off, outCount.val)} })
    : outCount \in {ReadVarint(data, ins.off)} })
    : ins \in {ReadInputs(data, inCount.off, inCount.val)} })
    : inCount \in {ReadVarint(data, 4)} })
    : version \in {ReadNum(data, 0, 4)} })

\* TX.decode(data): new TX().read(bio.read(data))
decode(data) == read(NewTX(<<>>, <<>>), data)

-----------------------------------------------------------------------------
(* primitives/tx.js: signatureHash, checksig, signature.                   *)

RECURSIVE WritePrevouts(_)
WritePrevouts(inputs) ==
  IF inputs = <<>> THEN <<>>
  ELSE OutpointWrite(Head(inputs).prevout) \o WritePrevouts(Tail(inputs))

RECURSIVE WriteSequences(_)
WriteSequences(inputs) ==
  IF inputs = <<>> THEN <<>>
  ELSE WriteU32(Head(inputs).sequence) \o WriteSequences(Tail(inputs))

\* the prevouts digest that reads the cached digest before looking at the type
SighashPrevouts_CacheFirst(t, type) ==
  IF t._hashPrevouts # Null THEN Returns(t, t._hashPrevouts)
  ELSE IF ~HasAnyoneCanPay(type)
    THEN LET prevouts == Blake2b(WritePrevouts(t.inputs)) IN
         Returns(IF ~t.mutable THEN [t EXCEPT !._hashPrevouts = prevouts] ELSE t,
                 prevouts)
    ELSE Returns(t, ZERO_HASH)

\* the prevouts digest and the object after it was read or cached
SighashPrevouts(t, type) ==
  IF ~HasAnyoneCanPay(type)
    THEN IF t._hashPrevouts # Null THEN Returns(t, t._hashPrevouts)
         ELSE LET prevouts == Blake2b(WritePrevouts(t.inputs)) IN
              Returns(IF ~t.mutable THEN [t EXCEPT !._hashPrevouts = prevouts] ELSE t,
                      prevouts)
    ELSE Returns(t, ZERO_HASH)

\* the sequences digest
SighashSequences(t, type) ==
  IF /\ ~HasAnyoneCanPay(type)
     /\ BaseMode(type) # hashType.SINGLE
     /\ BaseMode(type) # hashType.SINGLEREVERSE
     /\ BaseMode(type) # hashType.NONE
    THEN IF t._hashSequence # Null THEN Returns(t, t._hashSequence)
         ELSE LET sequences == Blake2b(WriteSequences(t.inputs)) IN
              Returns(IF ~t.mutable THEN [t EXCEPT !._hashSequence = sequences] ELSE t,
                      sequences)
    ELSE Returns(t, ZERO_HASH)

\* the outputs digest that takes output[index] for SINGLEREVERSE as well
SighashOutputs_ReverseAsSingle(t, index, type) ==
  IF /\ BaseMode(type) # hashType.SINGLE
     /\ BaseMode(type) # hashType.SINGLEREVERSE
     /\ BaseMode(type) # hashType.NONE
    THEN IF t._hashOutputs # Null THEN Returns(t, t._hashOutputs)
         ELSE LET outputs == Blake2b(WriteOutputs(t.outputs)) IN
              Returns(IF ~t.mutable THEN [t EXCEPT !._hashOutputs = outputs] ELSE t,
                      outputs)
  ELSE IF BaseMode(type) = hashType.SINGLE \/ BaseMode(type) = hashType.SINGLEREVERSE
    THEN IF index < Len(t.outputs)
           THEN Returns(t, Blake2b(OutputWrite(t.outputs[index + 1])))
           ELSE Returns(t, ZERO_HASH)
  ELSE Returns(t, ZERO_HASH)

\* the outputs digest; index counts from 0
SighashOutputs(t, index, type) ==
  IF /\ BaseMode(type) # hashType.SINGLE
     /\ BaseMode(type) # hashType.SINGLEREVERSE
     /\ BaseMode(type) # hashType.NONE
    THEN IF t._hashOutputs # Null THEN Returns(t, t._hashOutputs)
         ELSE LET outputs == Blake2b(WriteOutputs(t.outputs)) IN
              Returns(IF ~t.mutable THEN [t EXCEPT !._hashOutputs = outputs] ELSE t,
                      outputs)
  ELSE IF BaseMode(type) = hashType.SINGLE
    THEN IF index < Len(t.outputs)
           THEN Returns(t, Blake2b(OutputWrite(t.outputs[index + 1])))
           ELSE Returns(t, ZERO_HASH)
  ELSE IF BaseMode(type) = hashType.SINGLEREVERSE
    THEN IF index < Len(t.outputs)
           THEN Returns(t, Blake2b(OutputWrite(t.outputs[(Len(t.outputs) - 1) - index + 1])))
           ELSE Returns(t, ZERO_HASH)
  ELSE Returns(t, ZERO_HASH)

\* the digest signatureHash returns, of the 156 bytes and the script
SighashDigest(t, input, prevouts, sequences, outputs, prev, value, type) ==
  Blake2b(WriteU32(t.version)
            \o prevouts
            \o sequences
            \o input.prevout.hash
            \o WriteU32(input.prevout.index)
            \o WriteVarBytes(prev)
            \o WriteU64(value)
            \o WriteU32(input.sequence)
            \o outputs
            \o WriteU32(t.locktime)
            \o WriteU32(type))

\* signatureHash that signs the input itself, NOINPUT or not
signatureHash_KeepsInput(t, index, prev, value, type) ==
  IF ~(index >= 0 /\ index < Len(t.inputs)) THEN Throws(t, "AssertionError")
  ELSE
    The({ The({ The({ Returns(o.tx,
                        SighashDigest(t, t.inputs[index + 1],
                                      p.val, s.val, o.val, prev, value, type))
                      : o \in {SighashOutputs(s.tx, index, type)} })
                : s \in {SighashSequences(p.tx, type)} })
          : p \in {SighashPrevouts(t, type)} })

\* signatureHash(index, prev, value, type); prev is the script's encoding
signatureHash(t, index, prev, value, type) ==
  IF ~(index >= 0 /\ index < Len(t.inputs)) THEN Throws(t, "AssertionError")
  ELSE
    The({ The({ The({ Returns(o.tx,
                        SighashDigest(t,
                                      IF HasNoInput(type) THEN NewInput
                                      ELSE t.inputs[index + 1],
                                      p.val, s.val, o.val, prev, value, type))
                      : o \in {SighashOutputs(s.tx, index, type)} })
                : s \in {SighashSequences(p.tx, type)} })
          : p \in {SighashPrevouts(t, type)} })

\* sig[sig.length - 1]: the last byte, when it is a byte of its own
LastByte(sig) ==
  LET c == sig[Len(sig)] IN
  IF c.n = 1 /\ c.t = "lit" THEN c.i ELSE 0

\* checksig that computes the hash before it looks at the signature's length
checksig_HashFirst(t, index, prev, value, sig, key) ==
  The({ IF h.threw # "" THEN h
        ELSE IF ByteLen(sig) = 0 THEN Returns(h.tx, FALSE)
        ELSE Returns(h.tx, Secp256k1Verify(h.val, Slice(sig, 0, ByteLen(sig) - 1), key))
        : h \in {signatureHash(t, index, prev, value,
                                IF ByteLen(sig) = 0 THEN 0 ELSE LastByte(sig))} })

\* checksig that takes the type to be ALL instead of reading the last byte
checksig_TypeAll(t, index, prev, value, sig, key) ==
  IF ByteLen(sig) = 0 THEN Returns(t, FALSE)
  ELSE
    The({ IF h.threw # "" THEN h
          ELSE Returns(h.tx, Secp256k1Verify(h.val, Slice(sig, 0, ByteLen(sig) - 1), key))
          : h \in {signatureHash(t, index, prev, value, hashType.ALL)} })

\* checksig(index, prev, value, sig, key)
checksig(t, index, prev, value, sig, key) ==
  IF ByteLen(sig) = 0 THEN Returns(t, FALSE)
  ELSE
    The({ IF h.threw # "" THEN h
          ELSE Returns(h.tx, Secp256k1Verify(h.val, Slice(sig, 0, ByteLen(sig) - 1), key))
          : h \in {signatureHash(t, index, prev, value, LastByte(sig))} })

\* signature(index, prev, value, key, type); type 0 - 1 stands for a type
\* that is not given
signature(t, index, prev, value, key, type) ==
  LET ty == IF type = 0 - 1 THEN hashType.ALL ELSE type IN
  The({ IF h.threw # "" THEN h
        ELSE Returns(h.tx, Secp256k1Sign(h.val, key) \o WriteU8(ty))
        : h \in {signatureHash(t, index, prev, value, ty)} })

-----------------------------------------------------------------------------
(* index.js: the wallet HandshakeJS and its transaction builders.          *)

\* the default path m'/44'/5353'/0'/0/0
DefaultPath == <<44, 5353, 0, 0, 0>>

\* the constructor, from fromMasterSeed(seed) and fromPrivateKey(privateKey);
\* a wallet made from a private key has no _seed (Null)
FromMasterSeed(seed) ==
  [seed |-> seed,
   privateKey |-> HdPrivateKey(seed, DefaultPath),
   publicKey |-> PublicKeyCreate(HdPrivateKey(seed, DefaultPath))]
FromPrivateKey(privateKey) ==
  [seed |-> Null, privateKey |-> privateKey, publicKey |-> PublicKeyCreate(privateKey)]
\* bip39.mnemonicToSeedSync(mnemonic): 64 bytes
FromMnemonic(mnemonic) ==
  FromMasterSeed(<<Chunk(64, "mnemonicToSeed", 0, mnemonic)>>)

\* Address.toString() and Address.fromString(): the bech32 text of an address
AddressToString(addr) == <<Chunk(42, "bech32", addr.version, addr.hash)>>
AddressFromString(str) == [version |-> str[1].i, hash |-> str[1].v]
\* Address.fromPubkey(key)
AddressFromPubkey(key) == Address(Blake2b160(key))

\* Buffer.from(hex, 'hex') of the hex text of a hash
FromHex(hex) == hex[1].v

\* getAddress() without a path
getAddress(w) == AddressToString(AddressFromPubkey(w.publicKey))

\* Buffer.from(name, 'ascii'): one byte per char, its code & 0xff
RawName(str) == [j \in 1..Len(str) |-> Chunk(1, "lit", str[j] % 256, <<>>)]

\* hashName(name) of a Buffer
hashName(rawName) == Sha3(rawName)

\* generateNonce: the index (hi ^ lo) & 0x7fffffff of the derived key.  A
\* value below 2^31 has hi = 0 and lo = value, so the index is the value.
NonceIndex(value) == value % 2147483647

\* generateNonce(nameHash, address, value); threw when the wallet has no
\* seed to derive from
generateNonce(w, nameHash, address, value) ==
  IF w.seed = Null THEN [threw |-> "TypeError", val |-> Null]
  ELSE [threw |-> "",
        val |-> Blake2bMulti(address.hash,
                            PublicKeyCreate(HdPrivateKey(w.seed, <<44, 5353, 0, NonceIndex(value)>>)),
                            nameHash)]

\* rule.js createBlind(value, nonce)
createBlind(value, nonce) == Blake2b(WriteU64(value) \o nonce)

RECURSIVE SumValues(_)
SumValues(utxos) ==
  IF utxos = <<>> THEN 0 ELSE Head(utxos).value + SumValues(Tail(utxos))

\* the forEach of generateTransaction from input index on (index counts
\* from 0): sign the input with the value of its UTXO, then set its witness
RECURSIVE SignInputs_FirstValue(_, _, _, _, _)
SignInputs_FirstValue(w, t, utxos, script, index) ==
  IF index >= Len(t.inputs) THEN Returns(t, Null)
  ELSE
    LET txin == utxos[1] IN
    The({ IF sig.threw # "" THEN sig
          ELSE SignInputs_FirstValue(
                 w, [sig.tx EXCEPT !.inputs[index + 1].witness = <<sig.val, w.publicKey>>],
                 utxos, script, index + 1)
          : sig \in {signature(t, index, script, txin.value, w.privateKey, 0 - 1)} })

RECURSIVE SignInputs(_, _, _, _, _)
SignInputs(w, t, utxos, script, index) ==
  IF index >= Len(t.inputs) THEN Returns(t, Null)
  ELSE
    LET txin == utxos[index + 1] IN
    The({ IF sig.threw # "" THEN sig
          ELSE SignInputs(
                 w, [sig.tx EXCEPT !.inputs[index + 1].witness = <<sig.val, w.publicKey>>],
                 utxos, script, index + 1)
          : sig \in {signature(t, index, script, txin.value, w.privateKey, 0 - 1)} })

\* what a builder call gives: status "returned" with hex and txid, or
\* "threw" with the error; built is the Tx object it made (new TX() when it
\* made none) and work what it had computed by then
BuilderThrew(error, t, work0) ==
  [status |-> "threw", error |-> error, hex |-> Null, txid |-> Null,
   built |-> t, work |-> work0]
BuilderReturned(hex, id, t, work0) ==
  [status |-> "returned", error |-> "", hex |-> hex, txid |-> id,
   built |-> t, work |-> work0]

\* generateTransaction from the signed transaction on: encode() and txid()
EncodeAndId(signed, work1) ==
  IF signed.threw # "" THEN BuilderThrew(signed.threw, signed.tx, work1)
  ELSE
    LET work2 == work1 \cup (IF Len(signed.tx.inputs) > 0 THEN {"signatures"} ELSE {}) IN
    The({ IF raw.threw # "" THEN BuilderThrew(raw.threw, raw.tx, work2)
          ELSE The({ IF id.threw # "" THEN BuilderThrew(id.threw, id.tx, work2)
                     ELSE BuilderReturned(ToHex(raw.val), id.val, id.tx, work2)
                     : id \in {txid(raw.tx)} })
          : raw \in {encode(signed.tx)} })

generateTransaction(w, utxos, outputs, work0) ==
  LET inputs == [j \in 1..Len(utxos) |->
                   InputFromOutpoint(Outpoint(FromHex(utxos[j].hash), utxos[j].index))]
      pkh == Blake2b160(w.publicKey)
      script == ScriptFromPubkeyhash(pkh)
  IN The({ The({ EncodeAndId(signed, work0 \cup {"inputs"})
                 : signed \in {SignInputs(w, transaction, utxos, script, 0)} })
           : transaction \in {NewTX(inputs, outputs)} })

\* changeAddress || selfAddress: an omitted changeAddress is Null
OrSelf(changeAddress, selfAddress) ==
  IF changeAddress = Null THEN selfAddress ELSE changeAddress

\* send with the fee left out of the change
send_ChangeWithoutFee(w, utxos, address, amount, fee, changeAddress) ==
  LET inputAmount == SumValues(utxos)
      changeAmount == inputAmount - amount
      selfAddress == getAddress(w)
      outputs == << OutputFromScript(AddressFromString(address), amount),
                    OutputFromScript(AddressFromString(OrSelf(changeAddress, selfAddress)),
                                     changeAmount) >>
  IN generateTransaction(w, utxos, outputs, {"outputs"})

send(w, utxos, address, amount, fee, changeAddress) ==
  LET inputAmount == SumValues(utxos)
      changeAmount == inputAmount - fee - amount
      selfAddress == getAddress(w)
      outputs == << OutputFromScript(AddressFromString(address), amount),
                    OutputFromScript(AddressFromString(OrSelf(changeAddress, selfAddress)),
                                     changeAmount) >>
  IN generateTransaction(w, utxos, outputs, {"outputs"})

openName(w, str, utxos, fee, changeAddress) ==
  LET rawName == RawName(str)
      nameHash == hashName(rawName)
      addr == getAddress(w)
      output == Output(AddressFromString(addr), 0,
                       Covenant(types.OPEN, <<nameHash, WriteU32(0), rawName>>))
      inputAmount == SumValues(utxos)
      changeAmount == inputAmount - fee
      outputs == << OutputFromScript(AddressFromString(OrSelf(changeAddress, addr)),
                                     changeAmount),
                    output >>
  IN generateTransaction(w, utxos, outputs, {"nameHash", "outputs"})

\* bidName with the blind made of the lockup
BidValidName_BlindOfLockup(w, str, value, lockup, start, utxos, fee, changeAddress) ==
  LET rawName == RawName(str)
      nameHash == hashName(rawName)
      addr == getAddress(w)
  IN The({ IF nonce.threw # ""
             THEN BuilderThrew(nonce.threw, NewTX(<<>>, <<>>), {"nameHash"})
           ELSE
             LET blind == createBlind(lockup, nonce.val)
                 output == Output(AddressFromString(addr), lockup,
                                  Covenant(types.BID,
                                           <<nameHash, WriteU32(start), rawName, blind>>))
                 inputAmount == SumValues(utxos)
                 changeAmount == inputAmount - fee - value
                 outputs == << output,
                               OutputFromScript(
                                 AddressFromString(OrSelf(changeAddress, addr)),
                                 changeAmount) >>
             IN generateTransaction(w, utxos, outputs,
                                    {"nameHash", "nonce", "blind", "outputs"})
           : nonce \in {generateNonce(w, nameHash, AddressFromString(addr), value)} })

\* bidName from the name hash on, after the name was checked
BidValidName(w, str, value, lockup, start, utxos, fee, changeAddress) ==
  LET rawName == RawName(str)
      nameHash == hashName(rawName)
      addr == getAddress(w)
  IN The({ IF nonce.threw # ""
             THEN BuilderThrew(nonce.threw, NewTX(<<>>, <<>>), {"nameHash"})
           ELSE
             LET blind == createBlind(value, nonce.val)
                 output == Output(AddressFromString(addr), lockup,
                                  Covenant(types.BID,
                                           <<nameHash, WriteU32(start), rawName, blind>>))
                 inputAmount == SumValues(utxos)
                 changeAmount == inputAmount - fee - value
                 outputs == << output,
                               OutputFromScript(
                                 AddressFromString(OrSelf(changeAddress, addr)),
                                 changeAmount) >>
             IN generateTransaction(w, utxos, outputs,
                                    {"nameHash", "nonce", "blind", "outputs"})
           : nonce \in {generateNonce(w, nameHash, AddressFromString(addr), value)} })

\* bidName without the check of the name
bidName_Unchecked(w, str, value, lockup, start, utxos, fee, changeAddress) ==
  BidValidName(w, str, value, lockup, start, utxos, fee, changeAddress)

bidName(w, str, value, lockup, start, utxos, fee, changeAddress) ==
  IF ~verifyString(str) THEN BuilderThrew("Invalid name.", NewTX(<<>>, <<>>), {})
  ELSE BidValidName(w, str, value, lockup, start, utxos, fee, changeAddress)

-----------------------------------------------------------------------------
(* Idle values of the variables a specification does not use.              *)

NoWallet == [seed |-> Null, privateKey |-> Null, publicKey |-> Null]
\* no call yet: the args of a builder call and what it gave
NoArgs ==
  [op |-> "none", name |-> <<>>, value |-> 0, lockup |-> 0, start |-> 0,
   utxos |-> <<>>, address |-> Null, amount |-> 0, fee |-> 0, changeAddress |-> Null]
NoResult == [status |-> "none", error |-> "", hex |-> Null, txid |-> Null]
NoRet == [op |-> "none", val |-> Null, threw |-> "", index |-> 0, type |-> 0]

RuleIdle == name = <<>> /\ verdict = "none"
WalletIdle ==
  /\ wallet = NoWallet
  /\ call = NoArgs
  /\ result = NoResult
  /\ built = NewTX(<<>>, <<>>)
  /\ work = {}
TxIdle == tx = NewTX(<<>>, <<>>) /\ ret = NoRet /\ edits = 0

-----------------------------------------------------------------------------
(* Specification of the TX object: field edits, refresh() and the         *)
(* accessors, in any order, on one TX that starts as new TX().            *)

\* the k-th input and output pushed, and the witnesses and the sequence set
NthPrevout(k) == Outpoint(Lit(32, k), k - 1)
NthOutput(k) ==
  IF k % 2 = 1
    THEN OutputFromScript(Address(Lit(20, k)), k)
    ELSE Output(Address(Lit(20, k)), 0,
                Covenant(types.OPEN, <<Lit(32, k), WriteU32(0), Lit(k, k)>>))
TxWitnesses == { <<Lit(1, 7)>>, <<Lit(2, 8), Lit(1, 9)>> }
TxSequences == {0}
\* the previous script, the previous value and the sighash type (the one
\* generateTransaction signs with) of the signatureHash calls
TxPrevScript == ScriptFromPubkeyhash(Lit(20, 5))
TxPrevValue == MaxAmount
TxSigTypes == { hashType.ALL }

Edit(op, t) ==
  /\ edits < MaxEdits
  /\ edits' = edits + 1
  /\ tx' = t
  /\ ret' = [NoRet EXCEPT !.op = op]
  /\ UNCHANGED <<ruleVars, walletVars>>

Called(op, r, index, type) ==
  /\ tx' = r.tx
  /\ ret' = [op |-> op, val |-> r.val, threw |-> r.threw, index |-> index, type |-> type]
  /\ UNCHANGED <<edits, ruleVars, walletVars>>

\* new TX(), or new TX({ inputs, outputs }) with one input and one output
InitTx ==
  /\ tx \in { NewTX(<<>>, <<>>),
              NewTX(<<InputFromOutpoint(NthPrevout(1))>>, <<NthOutput(1)>>) }
  /\ ret = NoRet
  /\ edits = 0
  /\ RuleIdle
  /\ WalletIdle

\* this.inputs.push(input)
PushInput ==
  Edit("pushInput",
       [tx EXCEPT !.inputs = Append(@, InputFromOutpoint(NthPrevout(Len(tx.inputs) + 1)))])

\* this.outputs.push(output)
PushOutput ==
  Edit("pushOutput", [tx EXCEPT !.outputs = Append(@, NthOutput(Len(tx.outputs) + 1))])

\* input.witness = witness
SetWitness ==
  \E k \in 1..Len(tx.inputs), w \in TxWitnesses :
    /\ tx.inputs[k].witness # w
    /\ Edit("setWitness", [tx EXCEPT !.inputs[k].witness = w])

\* input.sequence = sequence
SetSequence ==
  \E k \in 1..Len(tx.inputs), q \in TxSequences :
    /\ tx.inputs[k].sequence # q
    /\ Edit("setSequence", [tx EXCEPT !.inputs[k].sequence = q])

\* tx.mutable = flag
SetMutable ==
  /\ tx' = [tx EXCEPT !.mutable = ~@]
  /\ ret' = [NoRet EXCEPT !.op = "setMutable"]
  /\ UNCHANGED <<edits, ruleVars, walletVars>>

Refresh ==
  /\ tx' = refresh(tx)
  /\ ret' = [NoRet EXCEPT !.op = "refresh"]
  /\ UNCHANGED <<edits, ruleVars, walletVars>>

GetSizes == \E r \in {getSizes(tx)} : Called("getSizes", r, 0, 0)
Encode == \E r \in {encode(tx)} : Called("encode", r, 0, 0)
Hash == \E r \in {hash(tx)} : Called("hash", r, 0, 0)
WitnessHash == \E r \in {witnessHash(tx)} : Called("witnessHash", r, 0, 0)
Txid == \E r \in {txid(tx)} : Called("txid", r, 0, 0)

SignatureHash ==
  \E index \in 0..(Len(tx.inputs) - 1), type \in TxSigTypes :
    \E r \in {signatureHash(tx, index, TxPrevScript, TxPrevValue, type)} :
      Called("signatureHash", r, index, type)

Next ==
  \/ PushInput
  \/ PushOutput
  \/ SetWitness
  \/ SetSequence
  \/ SetMutable
  \/ Refresh
  \/ GetSizes
  \/ Encode
  \/ Hash
  \/ WitnessHash
  \/ Txid
  \/ SignatureHash

Spec == InitTx /\ [][Next]_vars

-----------------------------------------------------------------------------
(* Specification of signing: signature() and then checksig() of the       *)
(* signature, or of an altered one, on a TX built by the constructor.     *)

FirstInputs(k) == [j \in 1..k |-> InputFromOutpoint(NthPrevout(j))]
FirstOutputs(m) == [j \in 1..m |-> NthOutput(j)]

\* every base mode with every pair of modifier flags, and -1: no type given
SigTypes ==
  { mode + flags :
      mode \in {hashType.ALL, hashType.NONE, hashType.SINGLE, hashType.SINGLEREVERSE},
      flags \in {0, hashType.NOINPUT, hashType.ANYONECANPAY,
                 hashType.NOINPUT + hashType.ANYONECANPAY} }
  \cup {0 - 1}

SigPrivateKey == Lit(32, 11)

\* the signature with one byte changed: a byte of the 64 signature bytes,
\* or bit 0 or bit 7 of the last byte
AlterSignature(sig, how) ==
  LET last == sig[Len(sig)].i IN
  CASE how = "none" -> sig
    [] how = "sig" -> <<[sig[1] EXCEPT !.i = 1]>> \o Tail(sig)
    [] how = "bit0" ->
         SubSeq(sig, 1, Len(sig) - 1)
           \o WriteU8(IF last % 2 = 0 THEN last + 1 ELSE last - 1)
    [] how = "bit7" ->
         SubSeq(sig, 1, Len(sig) - 1)
           \o WriteU8(IF last < 128 THEN last + 128 ELSE last - 128)

InitSig ==
  /\ \E k \in 1..MaxInputs, m \in 0..MaxOutputs, mu \in BOOLEAN :
       tx = [NewTX(FirstInputs(k), FirstOutputs(m)) EXCEPT !.mutable = mu]
  /\ ret = NoRet
  /\ edits = 0
  /\ RuleIdle
  /\ WalletIdle

\* an earlier signatureHash call, which on an immutable TX caches digests
SigPrepare ==
  /\ ret.op = "none"
  /\ \E type \in {hashType.ALL, hashType.SINGLE, hashType.ALL + hashType.ANYONECANPAY} :
       \E h \in {signatureHash(tx, 0, TxPrevScript, TxPrevValue, type)} :
       /\ tx' = h.tx
       /\ ret' = [op |-> "signatureHash", val |-> h.val, threw |-> h.threw,
                  index |-> 0, type |-> type]
  /\ UNCHANGED <<edits, ruleVars, walletVars>>

\* tx.checksig(index, prev, value2, alter(tx.signature(index, prev, value, key, type)), pub)
\* with another value2, or with one byte of the signature altered
SignAndCheck ==
  /\ ret.op # "checksig"
  /\ \E index \in 0..(Len(tx.inputs) - 1), type \in SigTypes,
        try \in { <<1, "none">>, <<2, "none">>, <<1, "sig">>, <<1, "bit0">>, <<1, "bit7">> } :
       LET value == 1
           value2 == try[1]
           how == try[2]
       IN \E s \in {signature(tx, index, TxPrevScript, value, SigPrivateKey, type)} :
          \E c \in {checksig(s.tx, index, TxPrevScript, value2,
                              AlterSignature(s.val, how), PublicKeyCreate(SigPrivateKey))} :
            /\ tx' = c.tx
            /\ ret' = [op |-> "checksig", val |-> c.val, threw |-> c.threw,
                       index |-> index, type |-> type,
                       sameValue |-> (value2 = value), altered |-> (how # "none")]
  /\ UNCHANGED <<edits, ruleVars, walletVars>>

NextSig ==
  \/ SigPrepare
  \/ SignAndCheck

SpecSig == InitSig /\ [][NextSig]_vars

-----------------------------------------------------------------------------
(* Specification of the signature hash: signatureHash is called time      *)
(* after time on one TX, with every sighash type and every input, and     *)
(* checksig is called with and without signature bytes at every index.    *)

\* base mode and flags of a sighash type byte
SighashTypes == SigTypes \ {0 - 1}

\* tx.signatureHash(index, prev, value, type)
SighashCall ==
  /\ \E index \in 0..(Len(tx.inputs) - 1), type \in SighashTypes :
       \E h \in {signatureHash(tx, index, TxPrevScript, TxPrevValue, type)} :
         /\ tx' = h.tx
         /\ ret' = [op |-> "signatureHash", val |-> h.val, threw |-> h.threw,
                    index |-> index, type |-> type]
  /\ UNCHANGED <<edits, ruleVars, walletVars>>

\* tx.checksig(index, prev, value, sig, key) with a signature of no bytes or
\* of 65 bytes, at an index inside or outside the inputs
Checksig ==
  /\ \E index \in (0 - 1)..Len(tx.inputs), value \in {0, TxPrevValue},
        sig \in { <<>>, Secp256k1Sign(ZERO_HASH, SigPrivateKey) \o WriteU8(hashType.ALL) } :
       \E c \in {checksig(tx, index, TxPrevScript, value, sig,
                           PublicKeyCreate(SigPrivateKey))} :
         /\ tx' = c.tx
         /\ ret' = [op |-> "checksig", val |-> c.val, threw |-> c.threw,
                    index |-> index, type |-> ByteLen(sig)]
  /\ UNCHANGED <<edits, ruleVars, walletVars>>

NextSighash ==
  \/ SighashCall
  \/ Checksig

SpecSighash == InitSig /\ [][NextSighash]_vars

-----------------------------------------------------------------------------
(* Specification of the codec: a TX of the corpus is encoded, the bytes   *)
(* are decoded, and the decoded TX is refreshed, measured and encoded.    *)

\* the witnesses of the corpus: none, one item, and items one of them empty
CodecWitnesses == { <<>>, <<Lit(1, 7)>>, <<Lit(2, 8), <<>>, Lit(1, 9)>> }

\* the corpus: up to MaxInputs inputs, each with a witness, and up to
\* MaxOutputs outputs
CodecCorpus ==
  { NewTX([j \in 1..k |-> [InputFromOutpoint(NthPrevout(j)) EXCEPT !.witness = ws[j]]],
          FirstOutputs(m)) :
      <<k, ws>> \in UNION { {k} \X [1..k -> CodecWitnesses] : k \in 0..MaxInputs },
      m \in 0..MaxOutputs }

InitCodec ==
  /\ tx \in CodecCorpus
  /\ ret = NoRet
  /\ edits = 0
  /\ RuleIdle
  /\ WalletIdle

\* data = tx.encode(); then new TX().read(data), or read(data) on a new TX
\* that was made mutable
Decode ==
  /\ ret.op = "none"
  /\ \E mu \in BOOLEAN :
     \E e \in {encode(tx)} :
     \E d \in {read([NewTX(<<>>, <<>>) EXCEPT !.mutable = mu], e.val)} :
       /\ tx' = d.tx
       /\ ret' = [op |-> "decode", val |-> d.val, threw |-> d.threw,
                  index |-> 0, type |-> 0, data |-> e.val, source |-> e.tx]
  /\ UNCHANGED <<edits, ruleVars, walletVars>>

\* a call on the decoded TX: op and what it gave
AfterDecode(op, r) ==
  /\ ret.op \in {"decode", "refresh"}
  /\ tx' = r.tx
  /\ ret' = [ret EXCEPT !.op = op, !.val = r.val, !.threw = r.threw]
  /\ UNCHANGED <<edits, ruleVars, walletVars>>

CodecRefresh == ret.op = "decode" /\ AfterDecode("refresh", Returns(refresh(tx), Null))
CodecGetSizes == \E r \in {getSizes(tx)} : AfterDecode("getSizes", r)
CodecEncode == \E r \in {encode(tx)} : AfterDecode("encode", r)

NextCodec ==
  \/ Decode
  \/ CodecRefresh
  \/ CodecGetSizes
  \/ CodecEncode

SpecCodec == InitCodec /\ [][NextCodec]_vars

-----------------------------------------------------------------------------
(* Specification of the sizes: the size getters on a TX of the corpus,    *)
(* immutable or mutable.                                                  *)

\* the sigops costs tried, below and above the weights of the corpus
SigopsChoices == {0, 1, 4, 16, 64}

InitSize ==
  /\ \E t \in CodecCorpus, mu \in BOOLEAN : tx = [t EXCEPT !.mutable = mu]
  /\ ret = NoRet
  /\ edits = 0
  /\ RuleIdle
  /\ WalletIdle

GetSize == \E r \in {getSize(tx)} : Called("getSize", r, 0, 0)
GetBaseSize == \E r \in {getBaseSize(tx)} : Called("getBaseSize", r, 0, 0)
GetWeight == \E r \in {getWeight(tx)} : Called("getWeight", r, 0, 0)
GetVirtualSize == \E r \in {getVirtualSize(tx)} : Called("getVirtualSize", r, 0, 0)
GetSigopsSize ==
  \E sigops \in SigopsChoices :
    \E r \in {getSigopsSize(tx, sigops)} : Called("getSigopsSize", r, sigops, 0)

NextSize ==
  \/ GetSize
  \/ GetBaseSize
  \/ GetWeight
  \/ GetVirtualSize
  \/ GetSigopsSize

SpecSize == InitSize /\ [][NextSize]_vars

-----------------------------------------------------------------------------
(* TX and the coin view: getFee, getInputValue, getOutputValue, hasCoins.  *)
(* A view is a function from outpoints to [has, coin]: what hasEntry       *)
(* answers for the outpoint and what getOutput returns for it, Null or an  *)
(* output with a value.  The two are the view's own and need not agree.    *)

\* view.hasEntry(prevout) and view.getOutput(prevout)
ViewHasEntry(view, prevout) == view[prevout].has
ViewGetOutput(view, prevout) == view[prevout].coin

\* the loop of getOutputValue
RECURSIVE TotalOutputValue(_)
TotalOutputValue(outputs) ==
  IF outputs = <<>> THEN 0
  ELSE Head(outputs).value + TotalOutputValue(Tail(outputs))

getOutputValue(t) == TotalOutputValue(t.outputs)

\* the loop of getInputValue from the inputs left, with the total so far:
\* 0 at the first input whose coin is missing
RECURSIVE InputValueFrom(_, _, _)
InputValueFrom(inputs, view, total) ==
  IF inputs = <<>> THEN total
  ELSE IF ViewGetOutput(view, Head(inputs).prevout) = Null THEN 0
  ELSE InputValueFrom(Tail(inputs), view,
                      total + ViewGetOutput(view, Head(inputs).prevout).value)

getInputValue(t, view) == InputValueFrom(t.inputs, view, 0)

hasCoins(t, view) ==
  IF Len(t.inputs) = 0 THEN FALSE
  ELSE \A j \in 1..Len(t.inputs) : ViewHasEntry(view, t.inputs[j].prevout)

getFee(t, view) ==
  IF ~hasCoins(t, view) THEN 0
  ELSE getInputValue(t, view) - getOutputValue(t)

-----------------------------------------------------------------------------
(* Specification of the fee: a TX of 0..MaxInputs inputs and               *)
(* 0..MaxOutputs outputs and a view of its outpoints are given; the TX is  *)
(* asked its fee, its input value and whether it has its coins.            *)

\* what a view holds for one outpoint
ViewEntries ==
  [has : BOOLEAN, coin : {Null} \cup [value : 0..MaxAmount]]

\* the views of the outpoints t spends
ViewsOf(t) == [{ t.inputs[j].prevout : j \in 1..Len(t.inputs) } -> ViewEntries]

InitFee ==
  /\ \E k \in 0..MaxInputs, m \in 0..MaxOutputs, mu \in BOOLEAN :
       tx = [NewTX(FirstInputs(k), FirstOutputs(m)) EXCEPT !.mutable = mu]
  /\ \E view \in ViewsOf(tx) : call = [op |-> "view", view |-> view]
  /\ ret = NoRet
  /\ edits = 0
  /\ wallet = NoWallet
  /\ result = NoResult
  /\ built = NewTX(<<>>, <<>>)
  /\ work = {}
  /\ RuleIdle

\* tx.getFee(view)
GetFee ==
  /\ ret' = [op |-> "getFee", val |-> getFee(tx, call.view), threw |-> "",
             index |-> 0, type |-> 0]
  /\ UNCHANGED <<tx, edits, ruleVars, walletVars>>

\* tx.getInputValue(view)
GetInputValue ==
  /\ ret' = [op |-> "getInputValue", val |-> getInputValue(tx, call.view),
             threw |-> "", index |-> 0, type |-> 0]
  /\ UNCHANGED <<tx, edits, ruleVars, walletVars>>

\* tx.hasCoins(view)
HasCoins ==
  /\ ret' = [op |-> "hasCoins", val |-> hasCoins(tx, call.view), threw |-> "",
             index |-> 0, type |-> 0]
  /\ UNCHANGED <<tx, edits, ruleVars, walletVars>>

NextFee ==
  \/ GetFee
  \/ GetInputValue
  \/ HasCoins

SpecFee == InitFee /\ [][NextFee]_vars

-----------------------------------------------------------------------------
(* Specification of the name rule: one call of verifyString on each name.  *)

InitRule ==
  /\ name \in NameInputs
  /\ verdict = "none"
  /\ WalletIdle
  /\ TxIdle

VerifyStringCall ==
  /\ verdict = "none"
  /\ verdict' = IF verifyString(name) THEN "true" ELSE "false"
  /\ UNCHANGED <<name, walletVars, txVars>>

NextRule == VerifyStringCall

SpecRule == InitRule /\ [][NextRule]_vars

-----------------------------------------------------------------------------
(* Specification of the wallet: one call of a builder on a wallet made by  *)
(* one of the constructors.                                                *)

WalletChoices ==
  { FromMasterSeed(Lit(64, 1)), FromMnemonic(Lit(12, 2)), FromPrivateKey(Lit(32, 3)) }

\* the k-th UTXO a caller holds: the hex of its hash, its index, its value
Utxo(k) == [hash |-> ToHex(Lit(32, k)), index |-> k - 1, value |-> (k % MaxAmount) + 1]
UtxoLists ==
  UNION { [1..n -> {Utxo(1), Utxo(2)}] : n \in 0..MaxUtxos }

\* the address paid, and the changeAddress: omitted (Null) or another address
PaidAddresses == { AddressToString(Address(Lit(20, 21))) }
ChangeAddresses == { Null, AddressToString(Address(Lit(20, 22))) }
Amounts == 0..MaxAmount
\* "wltx", "a-b", "test" (blacklisted), "A", "-a", "" and one non-ASCII char
BuilderNames ==
  { <<119, 108, 116, 120>>, <<97, 45, 98>>, <<116, 101, 115, 116>>,
    <<65>>, <<45, 97>>, <<>>, <<228>> }
StartHeights == {0, 2842}

\* the args of the calls of each builder
SendArgs ==
  { [NoArgs EXCEPT !.op = "send", !.utxos = utxos, !.address = address,
                   !.amount = amount, !.fee = fee, !.changeAddress = changeAddress] :
      utxos \in UtxoLists, address \in PaidAddresses, amount \in Amounts,
      fee \in Amounts, changeAddress \in ChangeAddresses }
OpenNameArgs ==
  { [NoArgs EXCEPT !.op = "openName", !.name = str, !.utxos = utxos,
                   !.fee = fee, !.changeAddress = changeAddress] :
      str \in BuilderNames, utxos \in UtxoLists, fee \in Amounts,
      changeAddress \in ChangeAddresses }
BidNameArgs ==
  { [NoArgs EXCEPT !.op = "bidName", !.name = str, !.value = value,
                   !.lockup = lockup, !.start = start, !.utxos = utxos,
                   !.fee = fee, !.changeAddress = changeAddress] :
      str \in BuilderNames, value \in Amounts, lockup \in Amounts,
      start \in StartHeights, utxos \in UtxoLists, fee \in Amounts,
      changeAddress \in ChangeAddresses }

\* a wallet and the call about to be made on it
InitWallet ==
  /\ wallet \in WalletChoices
  /\ call \in SendArgs \cup OpenNameArgs \cup BidNameArgs
  /\ result = NoResult
  /\ built = NewTX(<<>>, <<>>)
  /\ work = {}
  /\ RuleIdle
  /\ TxIdle

\* the builder gave r
Built(r) ==
  /\ result.status = "none"
  /\ result' = [status |-> r.status, error |-> r.error, hex |-> r.hex, txid |-> r.txid]
  /\ built' = r.built
  /\ work' = r.work
  /\ UNCHANGED <<wallet, call, ruleVars, txVars>>

Send ==
  /\ call.op = "send"
  /\ \E r \in {send(wallet, call.utxos, call.address, call.amount, call.fee,
                    call.changeAddress)} : Built(r)

OpenName ==
  /\ call.op = "openName"
  /\ \E r \in {openName(wallet, call.name, call.utxos, call.fee, call.changeAddress)} :
       Built(r)

BidName ==
  /\ call.op = "bidName"
  /\ \E r \in {bidName(wallet, call.name, call.value, call.lockup, call.start,
                       call.utxos, call.fee, call.changeAddress)} : Built(r)

NextWallet == Send \/ OpenName \/ BidName

SpecWallet == InitWallet /\ [][NextWallet]_vars

-----------------------------------------------------------------------------
(* C6.                                                                     *)

Digits == 48..57
LowerCase == 97..122
Joiners == {45, 95}

\* the rule as section 4.1 states it
EligibleName(str) ==
  /\ Len(str) \in 1..63
  /\ \A k \in 1..Len(str) : str[k] < 128 /\ str[k] \in Digits \cup LowerCase \cup Joiners
  /\ Len(str) >= 1 => str[1] \notin Joiners /\ str[Len(str)] \notin Joiners
  /\ str \notin blacklist

\* C6: verifyString(name) returns true if and only if the name's length is
\* in 1..63, every character is a 7-bit ASCII digit, lowercase letter or
\* joiner, no joiner is first or last, and the name is not reserved.
C6_VerifyStringIffEligible ==
  verdict # "none" => ((verdict = "true") <=> EligibleName(name))

\* a name of the greatest length, with a joiner inside, is accepted
C6_Witness ==
  /\ verdict = "true"
  /\ Len(name) = MAX_NAME_SIZE
  /\ \E k \in 1..Len(name) : name[k] \in Joiners

-----------------------------------------------------------------------------
(* The derived values as section 4.2 and 4.3 define them, from the fields. *)

BaseRegion(t) ==
  WriteU32(t.version)
    \o WriteVarint(Len(t.inputs)) \o WriteInputs(t.inputs)
    \o WriteVarint(Len(t.outputs)) \o WriteOutputs(t.outputs)
    \o WriteU32(t.locktime)
WitnessRegion(t) == WriteWitnesses(t.inputs)

ExpectedRaw(t) == BaseRegion(t) \o WitnessRegion(t)
ExpectedSizes(t) == Sizes(ByteLen(BaseRegion(t)), ByteLen(WitnessRegion(t)))
ExpectedHash(t) == Blake2b(BaseRegion(t))
ExpectedWdhash(t) == Blake2b(WitnessRegion(t))
ExpectedWhash(t) == Blake2bRoot(ExpectedHash(t), ExpectedWdhash(t))
ExpectedPrevouts(t) == Blake2b(WritePrevouts(t.inputs))
ExpectedSequence(t) == Blake2b(WriteSequences(t.inputs))
ExpectedOutputs(t) == Blake2b(WriteOutputs(t.outputs))

\* every populated cache of t holds the value its fields give now
Coherent(t) ==
  /\ t._raw # Null => t._raw = ExpectedRaw(t)
  /\ t._sizes # NoSizes => t._sizes = ExpectedSizes(t)
  /\ t._hash # Null => t._hash = ExpectedHash(t)
  /\ t._wdhash # Null => t._wdhash = ExpectedWdhash(t)
  /\ t._whash # Null => t._whash = ExpectedWhash(t)
  /\ t._hashPrevouts # Null => t._hashPrevouts = ExpectedPrevouts(t)
  /\ t._hashSequence # Null => t._hashSequence = ExpectedSequence(t)
  /\ t._hashOutputs # Null => t._hashOutputs = ExpectedOutputs(t)

Populated(t) ==
  /\ t._raw # Null /\ t._sizes # NoSizes
  /\ t._hash # Null /\ t._wdhash # Null /\ t._whash # Null
  /\ t._hashPrevouts # Null /\ t._hashSequence # Null /\ t._hashOutputs # Null

FieldsOf(t) == <<t.version, t.inputs, t.outputs, t.locktime>>

AccessorOps == {"getSizes", "encode", "hash", "witnessHash", "txid", "signatureHash"}

\* what the accessor call recorded in r returns when it is computed from
\* the fields of t alone
ExpectedVal(r, t) ==
  CASE r.op = "getSizes" -> ExpectedSizes(t)
    [] r.op = "encode" -> ExpectedRaw(t)
    [] r.op = "hash" -> ExpectedHash(t)
    [] r.op = "witnessHash" -> ExpectedWhash(t)
    [] r.op = "txid" -> ToHex(ExpectedHash(t))
    [] r.op = "signatureHash" ->
         signatureHash(refresh(t), r.index, TxPrevScript, TxPrevValue, r.type).val

-----------------------------------------------------------------------------
(* C8.                                                                     *)

\* C8 as stated: whatever field edits and accessor calls were made, every
\* populated cache of an immutable transaction equals the value recomputed
\* from the current fields, and the assertion of hashes() never fails.
C8_CachesAlwaysCoherent ==
  ~tx.mutable => Coherent(tx) /\ ret.threw # "AssertionError"

\* C8 as amended: the caches of a new transaction are coherent; an accessor
\* call or refresh() on an immutable transaction whose populated caches are
\* coherent leaves every populated cache equal to the value recomputed from
\* the current fields (a field edit is what leaves a populated cache stale,
\* until refresh()); and the assertion of hashes() never fails.
C8_AccessorsKeepCoherence ==
  /\ Coherent(tx)
  /\ [](ret.threw # "AssertionError")
  /\ [][(/\ ~tx.mutable /\ ~tx'.mutable
          /\ FieldsOf(tx') = FieldsOf(tx)
          /\ Coherent(tx)) => Coherent(tx')]_vars

\* an immutable transaction with an input and a witness, edited and then
\* read through every accessor: all caches are populated, all are coherent
C8_Witness ==
  /\ ~tx.mutable
  /\ edits >= 1
  /\ \E k \in 1..Len(tx.inputs) : tx.inputs[k].witness # <<>>
  /\ Populated(tx)
  /\ Coherent(tx)
  /\ ret.op \in AccessorOps

-----------------------------------------------------------------------------
(* C9.                                                                     *)

\* C9: on a mutable transaction encode, getSizes, hash, witnessHash (txid)
\* and signatureHash each return the value recomputed from the current
\* fields, whatever the cache fields hold.
C9_MutableNeverReadsCache ==
  (tx.mutable /\ ret.op \in AccessorOps) =>
    (ret.threw = "" /\ ret.val = ExpectedVal(ret, tx))

-----------------------------------------------------------------------------
(* C10.                                                                    *)

\* the step changed the witness of some input and no other field
WitnessEdit ==
  /\ FieldsOf(tx') # FieldsOf(tx)
  /\ tx'.version = tx.version /\ tx'.outputs = tx.outputs /\ tx'.locktime = tx.locktime
  /\ Len(tx'.inputs) = Len(tx.inputs)
  /\ \A k \in 1..Len(tx.inputs) :
       /\ tx'.inputs[k].prevout = tx.inputs[k].prevout
       /\ tx'.inputs[k].sequence = tx.inputs[k].sequence

\* hash(), right() and root() of t, recomputed (no cache is set)
Recomputed(t) == hashes(refresh(t)).val

\* C10: a change of an input's witness leaves the recomputed txid as it was
\* and changes wdhash and whash; and on an immutable transaction an accessor
\* call never changes a populated _raw or _hash, encode() returns _raw and
\* txid() the hex of _hash, so that repeated encode() and txid() calls with
\* nothing but accessor calls between them return the same bytes and txid.
C10_TxidOfBaseRegionOnly ==
  [][/\ WitnessEdit =>
          /\ Recomputed(tx')[1] = Recomputed(tx)[1]
          /\ Recomputed(tx')[1] = ExpectedHash(tx')
          /\ Recomputed(tx')[2] # Recomputed(tx)[2]
          /\ Recomputed(tx')[3] # Recomputed(tx)[3]
     /\ (~tx.mutable /\ ~tx'.mutable /\ ret'.op \in AccessorOps) =>
          /\ tx._raw # Null => tx'._raw = tx._raw
          /\ tx._hash # Null => tx'._hash = tx._hash
          /\ (ret'.op = "encode" /\ ret'.threw = "") => ret'.val = tx'._raw
          /\ (ret'.op = "txid" /\ ret'.threw = "") => ret'.val = ToHex(tx'._hash)
          /\ (ret.op = ret'.op /\ ret.threw = "" /\ ret'.op \in {"encode", "txid"})
               => ret'.val = ret.val
    ]_vars

\* a witness was set on an immutable transaction and txid() was called
C10_Witness ==
  /\ ~tx.mutable
  /\ ret.op = "txid"
  /\ ret.threw = ""
  /\ \E k \in 1..Len(tx.inputs) : tx.inputs[k].witness # <<>>
  /\ ret.val = ToHex(ExpectedHash(tx))

-----------------------------------------------------------------------------
(* C7.                                                                     *)

\* C7: checksig of the signature that signature() made, for the same index,
\* script and key, returns true when the signature is unaltered and the
\* prevValue is the one signed, for every sighash type, and false when a
\* byte of the signature was altered or the prevValue is another one.
C7_SignatureRoundTrip ==
  ret.op = "checksig" =>
    /\ ret.threw = ""
    /\ ret.val = (ret.sameValue /\ ~ret.altered)

\* a SINGLE | NOINPUT | ANYONECANPAY signature verified on an immutable
\* transaction whose digests were cached by an earlier call
C7_Witness ==
  /\ ret.op = "checksig"
  /\ ret.val = TRUE
  /\ ret.type = hashType.SINGLE + hashType.NOINPUT + hashType.ANYONECANPAY
  /\ ~tx.mutable
  /\ tx._hashPrevouts # Null
  /\ tx._hashOutputs # Null

-----------------------------------------------------------------------------
(* C1 to C5: the builders.                                                 *)

RECURSIVE SumOutputValues(_)
SumOutputValues(outputs) ==
  IF outputs = <<>> THEN 0 ELSE Head(outputs).value + SumOutputValues(Tail(outputs))

\* a builder call returned hex and txid
Produced(op) == call.op = op /\ result.status = "returned"

\* the wallet's own address, and the address of the change output
OwnAddress == [version |-> 0, hash |-> Blake2b160(wallet.publicKey)]
ChangeTo ==
  IF call.changeAddress = Null THEN OwnAddress
  ELSE [version |-> call.changeAddress[1].i, hash |-> call.changeAddress[1].v]

\* an output with no covenant
Plain(address, value) ==
  [value |-> value, address |-> address, covenant |-> [type |-> 0, items |-> <<>>]]

\* C1: the transaction a builder produced has
\* sum(utxo values) - sum(output values) = fee.
C1_BuildersFeeCorrect ==
  result.status = "returned" =>
    SumValues(call.utxos) - SumOutputValues(built.outputs) = call.fee

\* C2: the transaction send produced has exactly two outputs, in this order:
\* amount to address, and sum(utxo values) - fee - amount to changeAddress,
\* or to the wallet's own address when changeAddress is omitted.
C2_SendOutputs ==
  Produced("send") =>
    /\ built.outputs =
         << Plain([version |-> call.address[1].i, hash |-> call.address[1].v],
                  call.amount),
            Plain(ChangeTo, SumValues(call.utxos) - call.fee - call.amount) >>
    /\ result.hex = ToHex(ExpectedRaw(built))

\* send of two UTXOs without a changeAddress, with a fee
C2_Witness ==
  /\ Produced("send")
  /\ Len(call.utxos) = 2
  /\ call.changeAddress = Null
  /\ call.fee > 0
  /\ call.amount > 0

\* the chars of a name as bytes
NameBytes(str) == [j \in 1..Len(str) |-> [n |-> 1, t |-> "lit", i |-> str[j], v |-> <<>>]]

\* the blind of a bid as a function of the seed, the own address, the name
\* and the value alone
BlindOf(seed, own, str, value) ==
  Blake2b(Lit(8, value)
          \o Blake2b(own.hash
                     \o PublicKeyCreate(HdPrivateKey(seed, <<44, 5353, 0, value>>))
                     \o Sha3(NameBytes(str))))

\* C3: the transaction bidName produced for a valid name has one BID output
\* of value lockup with the items [nameHash(name), start, the raw name, blind]
\* and one change output of sum(utxo values) - fee - value; the blind is
\* createBlind(value, generateNonce(nameHash, own address, value)), a
\* function of the seed, the own address, the name and the value alone.
C3_BidOutputs ==
  (Produced("bidName") /\ verifyString(call.name)) =>
    /\ built.outputs =
         << [value |-> call.lockup, address |-> OwnAddress,
             covenant |-> [type |-> types.BID,
                           items |-> << Sha3(NameBytes(call.name)),
                                        Lit(4, call.start),
                                        NameBytes(call.name),
                                        BlindOf(wallet.seed, OwnAddress, call.name,
                                                call.value) >>]],
            Plain(ChangeTo, SumValues(call.utxos) - call.fee - call.value) >>
    /\ result.hex = ToHex(ExpectedRaw(built))

\* a bid on "wltx" with lockup above value, a start height and a changeAddress
C3_Witness ==
  /\ Produced("bidName")
  /\ call.name = <<119, 108, 116, 120>>
  /\ call.lockup > call.value
  /\ call.value > 0
  /\ call.start > 0
  /\ call.changeAddress # Null
  /\ Len(call.utxos) > 0

\* C4: a bidName call with a name that verifyString rejects throws
\* 'Invalid name.' and has by then computed no name hash, nonce, blind,
\* output, input or signature, made no transaction and left the wallet as
\* it was.
C4_InvalidNameAbortsFirst ==
  [][(call.op = "bidName" /\ ~verifyString(call.name)) =>
       /\ result'.status = "threw"
       /\ result'.error = "Invalid name."
       /\ result'.hex = Null /\ result'.txid = Null
       /\ work' = {}
       /\ built' = built
       /\ wallet' = wallet]_vars

\* bidName of the name "A", which is not valid, with UTXOs to spend, threw
C4_Witness ==
  /\ call.op = "bidName"
  /\ call.name = <<65>>
  /\ Len(call.utxos) > 0
  /\ wallet.seed # Null
  /\ result.status = "threw"

\* C5: the transaction a builder produced has one input per UTXO, in the
\* order of the UTXOs, with the outpoint (hash, index) of its UTXO and the
\* witness [signature, publicKey], and on that final transaction checksig of
\* each input's signature, with the pubkeyhash script of the wallet's key
\* and the value of its UTXO, is true.
C5_InputsSignedAndValid ==
  result.status = "returned" =>
    /\ Len(built.inputs) = Len(call.utxos)
    /\ \A k \in 1..Len(call.utxos) :
         /\ built.inputs[k].prevout =
              [hash |-> call.utxos[k].hash[1].v, index |-> call.utxos[k].index]
         /\ Len(built.inputs[k].witness) = 2
         /\ built.inputs[k].witness[2] = wallet.publicKey
         /\ LET ok == checksig(built, k - 1,
                               ScriptFromPubkeyhash(Blake2b160(wallet.publicKey)),
                               call.utxos[k].value, built.inputs[k].witness[1],
                               wallet.publicKey)
            IN ok.threw = "" /\ ok.val = TRUE

\* a bid that spends two UTXOs of different values
C5_Witness ==
  /\ Produced("bidName")
  /\ Len(call.utxos) = 2
  /\ call.utxos[1].value # call.utxos[2].value
  /\ built.inputs[2].witness # <<>>

-----------------------------------------------------------------------------
(* C11.                                                                    *)

\* C11: the TX decoded from the bytes data of an encoded TX has the fields
\* of the encoded TX (the k-th witness on the k-th input); when it is
\* immutable it keeps data as _raw and sizes with base + witness the length
\* of data, base the length of the base region and witness the length of
\* the witness region; and encode() of it returns data, from _raw or, when
\* it is mutable or was refreshed, written again from the decoded fields.
C11_EncodeDecodeRoundTrip ==
  /\ ret.op \in {"decode", "refresh", "getSizes", "encode"} =>
        /\ ret.threw = ""
        /\ tx.version = ret.source.version
        /\ tx.inputs = ret.source.inputs
        /\ tx.outputs = ret.source.outputs
        /\ tx.locktime = ret.source.locktime
  /\ (ret.op = "decode" /\ ~tx.mutable) =>
        /\ tx._raw = ret.data
        /\ tx._sizes.base + tx._sizes.witness = ByteLen(ret.data)
        /\ tx._sizes.base = ByteLen(BaseRegion(ret.source))
        /\ tx._sizes.witness = ByteLen(WitnessRegion(ret.source))
  /\ ret.op = "getSizes" => ret.val.base + ret.val.witness = ByteLen(ret.data)
  /\ ret.op = "encode" => ret.val = ret.data

\* two inputs, the first without witness and the second with items, decoded
\* into a mutable TX and written again
C11_Witness ==
  /\ ret.op = "encode"
  /\ tx.mutable
  /\ tx._raw = Null
  /\ Len(tx.inputs) = 2
  /\ tx.inputs[1].witness = <<>>
  /\ Len(tx.inputs[2].witness) = 3
  /\ Len(tx.outputs) = 2

-----------------------------------------------------------------------------
(* C12.                                                                    *)

\* the least integer that is not below x / 4
CeilOfQuarter(x) == CHOOSE q \in 0..x : 4 * q >= x /\ 4 * (q - 1) < x

\* C12: on every TX, with base and witness the sizes getSizes() gives:
\* getSize() = getBaseSize() + witness, getWeight() = base * 3 + (base +
\* witness), getVirtualSize() = ceil(getWeight() / 4), getWeight() =
\* 4 * getBaseSize() when witness is 0, and for every sigops
\* getSigopsSize(sigops) = ceil(max(getWeight(), sigops * BYTES_PER_SIGOP) / 4),
\* which is never below getVirtualSize(); and the getter called last
\* returned the value stated here.
C12_SizeGetters ==
  LET base == getSizes(tx).val.base
      witness == getSizes(tx).val.witness
      weight == getWeight(tx).val
      vsize == getVirtualSize(tx).val
  IN /\ getBaseSize(tx).val = base
     /\ getSize(tx).val = getBaseSize(tx).val + witness
     /\ weight = base * 3 + (base + witness)
     /\ vsize = CeilOfQuarter(weight)
     /\ witness = 0 => weight = 4 * getBaseSize(tx).val
     /\ \A sigops \in SigopsChoices :
          /\ getSigopsSize(tx, sigops).val
               = CeilOfQuarter(IF weight >= sigops * 20 THEN weight ELSE sigops * 20)
          /\ getSigopsSize(tx, sigops).val >= vsize
     /\ ret.op = "getSize" => ret.val = base + witness
     /\ ret.op = "getBaseSize" => ret.val = base
     /\ ret.op = "getWeight" => ret.val = weight
     /\ ret.op = "getVirtualSize" => ret.val = CeilOfQuarter(weight)
     /\ ret.op = "getSigopsSize" =>
          ret.val = CeilOfQuarter(IF weight >= ret.index * 20 THEN weight
                                  ELSE ret.index * 20)

\* getSigopsSize of a sigops cost that outweighs a TX with witness bytes
\* whose weight is no multiple of 4
C12_Witness ==
  /\ ret.op = "getSigopsSize"
  /\ ret.val > getVirtualSize(tx).val
  /\ getSizes(tx).val.witness > 0
  /\ getWeight(tx).val % 4 # 0

-----------------------------------------------------------------------------
(* C13.                                                                    *)

\* the bytes signatureHash digested
SighashPreimage(h) == h[1].v

\* C13: every signatureHash call returns the digest of bytes whose prevouts
\* field (bytes 4..36) is the zero hash when the type has ANYONECANPAY and
\* is otherwise BLAKE2b-256 over all inputs' outpoints in order, and whose
\* sequences field (bytes 36..68) is the zero hash when the type has
\* ANYONECANPAY or its base mode is SINGLE, SINGLEREVERSE or NONE and is
\* otherwise BLAKE2b-256 over all inputs' sequences, whatever types and
\* indices the earlier calls on the TX had.
C13_PrevoutsAndSequences ==
  ret.op = "signatureHash" =>
    /\ ret.threw = ""
    /\ Slice(SighashPreimage(ret.val), 4, 36)
         = (IF HasAnyoneCanPay(ret.type) THEN ZERO_HASH
            ELSE Blake2b(WritePrevouts(tx.inputs)))
    /\ Slice(SighashPreimage(ret.val), 36, 68)
         = (IF \/ HasAnyoneCanPay(ret.type)
               \/ BaseMode(ret.type) \in {hashType.SINGLE, hashType.SINGLEREVERSE,
                                          hashType.NONE}
              THEN ZERO_HASH
            ELSE Blake2b(WriteSequences(tx.inputs)))

\* an ANYONECANPAY call on an immutable TX of two inputs on which earlier
\* calls have cached the prevouts and the sequences digests
C13_Witness ==
  /\ ret.op = "signatureHash"
  /\ HasAnyoneCanPay(ret.type)
  /\ ~tx.mutable
  /\ Len(tx.inputs) = 2
  /\ tx._hashPrevouts # Null
  /\ tx._hashSequence # Null
  /\ Slice(SighashPreimage(ret.val), 4, 68) = ZERO_HASH \o ZERO_HASH

-----------------------------------------------------------------------------
(* C14.                                                                    *)

\* the outputs field of the bytes signatureHash digested: the 32 bytes
\* before the locktime and the type
SighashOutputsField(h) ==
  Slice(SighashPreimage(h), ByteLen(SighashPreimage(h)) - 40,
        ByteLen(SighashPreimage(h)) - 8)

\* C14: every signatureHash call at an input index returns 32 bytes without
\* an error, and the outputs field of the digested bytes is, for base mode
\* SINGLE, the digest of output[index] alone or the zero hash when index is
\* not below the number of outputs; for SINGLEREVERSE the digest of
\* output[length - 1 - index] alone or the zero hash under the same
\* condition; for NONE the zero hash; and otherwise BLAKE2b-256 over all
\* outputs.
C14_OutputsDigest ==
  ret.op = "signatureHash" =>
    /\ ret.threw = ""
    /\ ByteLen(ret.val) = 32
    /\ SighashOutputsField(ret.val)
         = (CASE BaseMode(ret.type) = hashType.SINGLE ->
                   IF ret.index < Len(tx.outputs)
                     THEN Blake2b(OutputWrite(tx.outputs[ret.index + 1]))
                     ELSE ZERO_HASH
              [] BaseMode(ret.type) = hashType.SINGLEREVERSE ->
                   IF ret.index < Len(tx.outputs)
                     THEN Blake2b(OutputWrite(tx.outputs[Len(tx.outputs) - ret.index]))
                     ELSE ZERO_HASH
              [] BaseMode(ret.type) = hashType.NONE -> ZERO_HASH
              [] OTHER -> Blake2b(WriteOutputs(tx.outputs)))

\* a SINGLE or SINGLEREVERSE call at the second input of a TX with fewer
\* than two outputs, which returned a digest over the zero outputs field
C14_Witness ==
  /\ ret.op = "signatureHash"
  /\ BaseMode(ret.type) \in {hashType.SINGLE, hashType.SINGLEREVERSE}
  /\ ret.index = 1
  /\ ret.index >= Len(tx.outputs)
  /\ ret.threw = ""
  /\ SighashOutputsField(ret.val) = ZERO_HASH

-----------------------------------------------------------------------------
(* C15.                                                                    *)

\* the TX that differs from t only in the outpoint of input index, as a new
\* object without cached values
Respent(t, index, prevout) ==
  refresh([t EXCEPT !.inputs[index + 1].prevout = prevout])

\* outpoints that differ from the signed input's in the hash, in the index,
\* or in both
OtherOutpoints(prevout) ==
  { Outpoint(Lit(32, 9), prevout.index),
    Outpoint(prevout.hash, prevout.index + 1),
    Outpoint(Lit(32, 9), prevout.index + 1) }

\* signatureHash of input index of the TX that spends prevout there instead
RespentHash(index, prevout, type) ==
  signatureHash(Respent(tx, index, prevout), index, TxPrevScript, TxPrevValue, type).val

\* C15 as stated: when the type has NOINPUT, a TX that differs only in the
\* outpoint of the signed input has the same signatureHash for that input,
\* for every base mode, with or without ANYONECANPAY.
C15_NoInputAnyOutpoint ==
  (ret.op = "signatureHash" /\ HasNoInput(ret.type)) =>
    \A prevout \in OtherOutpoints(tx.inputs[ret.index + 1].prevout) :
      RespentHash(ret.index, prevout, ret.type) = ret.val

\* C15, amended: when the type has NOINPUT and ANYONECANPAY, a TX that
\* differs only in the outpoint of the signed input has the same
\* signatureHash for that input, for every base mode; when it has NOINPUT
\* without ANYONECANPAY the prevouts digest still covers the signed input's
\* outpoint and the two hashes differ.
C15_NoInputWithAnyoneCanPay ==
  (ret.op = "signatureHash" /\ HasNoInput(ret.type)) =>
    \A prevout \in OtherOutpoints(tx.inputs[ret.index + 1].prevout) :
      (RespentHash(ret.index, prevout, ret.type) = ret.val)
        <=> HasAnyoneCanPay(ret.type)

\* a NOINPUT call with ANYONECANPAY at the second input of a TX whose hash
\* is that of the TX spending another outpoint there
C15_Witness ==
  /\ ret.op = "signatureHash"
  /\ HasNoInput(ret.type)
  /\ HasAnyoneCanPay(ret.type)
  /\ ret.index = 1
  /\ ret.threw = ""
  /\ RespentHash(1, Outpoint(Lit(32, 9), 7), ret.type) = ret.val

-----------------------------------------------------------------------------
(* C16.                                                                    *)

\* C16: checksig with a signature of no bytes returns false and throws
\* nothing, at every index, an index outside the inputs included, for
\* every value; with signature bytes at an index outside the inputs the
\* assertion of signatureHash is what it throws.
C16_EmptySignatureIsFalse ==
  ret.op = "checksig" =>
    /\ ret.type = 0 => (ret.threw = "" /\ ret.val = FALSE)
    /\ (ret.type # 0 /\ ~(ret.index >= 0 /\ ret.index < Len(tx.inputs)))
         => ret.threw = "AssertionError"

\* checksig with no signature bytes at the index one past the last input
C16_Witness ==
  /\ ret.op = "checksig"
  /\ ret.type = 0
  /\ ret.index = Len(tx.inputs)
  /\ ret.threw = ""
  /\ ret.val = FALSE

-----------------------------------------------------------------------------
(* C17.                                                                    *)

\* an input of t whose previous output the view does not resolve: hasEntry
\* is false for it or getOutput returns null
Unresolved(t, view) ==
  \E j \in 1..Len(t.inputs) :
    \/ ~ViewHasEntry(view, t.inputs[j].prevout)
    \/ ViewGetOutput(view, t.inputs[j].prevout) = Null

\* the sum of the values of the coins of all inputs, all of them resolved
RECURSIVE ResolvedValue(_, _)
ResolvedValue(inputs, view) ==
  IF inputs = <<>> THEN 0
  ELSE ViewGetOutput(view, Head(inputs).prevout).value
         + ResolvedValue(Tail(inputs), view)

\* C17: getFee(view) returns 0 when the TX has no inputs or the view does
\* not resolve the previous output of at least one input (hasEntry false
\* or getOutput null), and otherwise the sum of the resolved input values
\* minus the sum of the output values.
C17_FeeZeroUnlessResolved ==
  ret.op = "getFee" =>
    ret.val = (IF Len(tx.inputs) = 0 \/ Unresolved(tx, call.view) THEN 0
               ELSE ResolvedValue(tx.inputs, call.view)
                      - SumOutputValues(tx.outputs))

-----------------------------------------------------------------------------
(* C18.                                                                    *)

\* the covenant of an OPEN or BID output has the name hash as its first
\* item and the raw name as its third
NameHashOfRawName(output) ==
  output.covenant.type \in {types.OPEN, types.BID} =>
    output.covenant.items[1] = Sha3(output.covenant.items[3])

\* C18: an openName and a bidName call with a name that verifyString
\* rejects throws 'Invalid name.' and has by then made no output, and in
\* every OPEN or BID output of a transaction a builder made the name-hash
\* item is nameHash of the raw-name item.
C18_BuildersValidateName ==
  /\ [](\A j \in 1..Len(built.outputs) : NameHashOfRawName(built.outputs[j]))
  /\ [][(call.op \in {"openName", "bidName"} /\ ~verifyString(call.name)) =>
          /\ result'.status = "threw"
          /\ result'.error = "Invalid name."
          /\ "outputs" \notin work'
          /\ built' = built]_vars

====
